---- MODULE Spec2Model ----
(***************************************************************************)
(* Rank estimators of pdsa: the q-digest (QuantileDigest) and the Random   *)
(* sampling structure (RandomSampling).                                    *)
(*                                                                         *)
(* A Python dict is modelled as a sequence of <<key, value>> pairs in      *)
(* insertion order: assigning to a present key keeps its position,         *)
(* assigning to an absent key appends, deleting removes.                   *)
(*                                                                         *)
(* _exact_boundary_value is a floating point accumulator of 1.0/k; it is   *)
(* kept as the integer numerator over compression_factor.  This is exact   *)
(* for the compression factors of CompressionFactors (powers of two).      *)
(***************************************************************************)
EXTENDS Integers, Sequences, FiniteSets, TLC

\* ------------------------------------------------------------------ bounds
MaxTotal == 3           \* elements the digests are driven to hold together
MaxAdds == 6            \* add calls made on the sampler
CounterLength == 3      \* length asked of the BitVectorCounter
MaxCompressed == 4      \* elements the digest that is only added to and compressed is driven to hold

Ranges == {1, 2}                \* range_in_bits of the digests
CompressionFactors == {1, 2}
Digests == {1, 2}

ROOT_BUCKET == 1
MaxRangeInBits == 32     \* if range_in_bits > 32: raise ValueError

VARIABLES
    qd,         \* qd[i]: the i-th QuantileDigest object
    inserted,   \* inserted[i]: accepted add calls whose element digest i holds (history)
    rs,         \* the RandomSampling object
    added,      \* add calls made on the sampler (history)
    values,     \* values[i][v]: adds of v to digest i while compress has not run on it (history)
    compressed, \* compressed[i]: compress has run on digest i past its guard (history)
    bvc,        \* the BitVectorCounter object
    last        \* the call that was made last, and its outcome

vars == <<qd, inserted, rs, added, values, compressed, bvc, last>>

\* ------------------------------------------------------------- Python dict
DictHas(q, key) == \E i \in 1..Len(q) : q[i][1] = key

DictGet(q, key, dflt) ==
    IF DictHas(q, key)
    THEN q[CHOOSE i \in 1..Len(q) : q[i][1] = key][2]
    ELSE dflt

DictSet(q, key, val) ==
    IF DictHas(q, key)
    THEN [i \in 1..Len(q) |-> IF q[i][1] = key THEN <<key, val>> ELSE q[i]]
    ELSE Append(q, <<key, val>>)

DictDel(q, key) == SelectSeq(q, LAMBDA e : e[1] # key)

DictKeys(q) == [i \in 1..Len(q) |-> q[i][1]]

DictAsMap(q) == {q[i] : i \in 1..Len(q)}

RECURSIVE DictSum(_)
DictSum(q) == IF q = <<>> THEN 0 ELSE q[1][2] + DictSum(Tail(q))

RECURSIVE bit_length(_)
bit_length(n) == IF n = 0 THEN 0 ELSE 1 + bit_length(n \div 2)

Xor1(n) == IF n % 2 = 0 THEN n + 1 ELSE n - 1

\* conversion of a non-negative integer to uint32_t: n modulo 2^32, written
\* with 16-bit halves so that no intermediate value leaves the integers of TLC
uint32_t(n) ==
    IF n \div 65536 < 65536 THEN n
    ELSE n - (((n \div 65536) \div 65536) * 65536) * 65536

\* ---------------------------------------------------------- QuantileDigest
NewDigest(range_in_bits, compression_factor) ==
    [ range_in_bits        |-> range_in_bits,
      compression_factor   |-> compression_factor,
      min_range            |-> 0,
      max_range            |-> 2^range_in_bits - 1,
      tree_height          |-> range_in_bits + 1,
      max_number_of_nodes  |-> 2^(range_in_bits + 1) - 1,
      number_of_buckets    |-> 0,
      exact_boundary_value |-> 0,
      qdigest              |-> <<>> ]

bucket_canonical_id(d, value) == d.max_number_of_nodes - d.max_range + value

\* the argument is declared uint32_t
bucket_parent_id(bucket_id) == uint32_t(bucket_id) \div 2

bucket_sibling_id(bucket_id) ==
    LET parent_bucket_id     == bucket_parent_id(uint32_t(bucket_id))
        current_bucket_shift == uint32_t(bucket_id) % 2
    IN  Xor1(2 * parent_bucket_id + current_bucket_shift)

bucket_level(bucket_id) == bit_length(bucket_id)

buckets_on_level(d, level) ==
    LET bucket_ids_start == 2^(level - 1)
        bucket_ids_end   == 2 * bucket_ids_start - 1
    IN  SelectSeq(DictKeys(d.qdigest),
                  LAMBDA b : bucket_ids_start <= b /\ b <= bucket_ids_end)

count(d) == DictSum(d.qdigest)

\* __len__
len(d) == d.number_of_buckets

\* floor(exact_boundary_value), the value being numerator / compression_factor
is_worth_to_store(d, family_counts) ==
    LET floored        == d.exact_boundary_value \div d.compression_factor
        boundary_value == IF floored > 1 THEN floored ELSE 1
    IN  family_counts > boundary_value

\* a variant of _delete_bucket_if_exists that counts a missing bucket as deleted
delete_bucket_counting_missing(d, bucket_id) ==
    [d EXCEPT !.qdigest = DictDel(@, bucket_id),
              !.number_of_buckets = @ - 1]

delete_bucket_if_exists(d, bucket_id) ==
    IF DictHas(d.qdigest, bucket_id)
    THEN [d EXCEPT !.qdigest = DictDel(@, bucket_id),
                   !.number_of_buckets = @ - 1]
    ELSE d

\* a variant of _merge_if_needed that leaves the sibling's counts out of the family
merge_if_needed_without_sibling(d, current_bucket_id) ==
    IF ~DictHas(d.qdigest, current_bucket_id) THEN d
    ELSE
    LET bucket_counts == DictGet(d.qdigest, current_bucket_id, 0) IN
    IF current_bucket_id = ROOT_BUCKET
    THEN IF bucket_counts <= 0 THEN delete_bucket_if_exists(d, ROOT_BUCKET) ELSE d
    ELSE
    LET parent_bucket_id      == bucket_parent_id(current_bucket_id)
        sibling_bucket_id     == bucket_sibling_id(current_bucket_id)
        bucket_parent_counts  == DictGet(d.qdigest, parent_bucket_id, 0)
        family_counts == bucket_counts + bucket_parent_counts
    IN  IF is_worth_to_store(d, family_counts) THEN d
        ELSE
        LET d1 == [d EXCEPT
                     !.number_of_buckets =
                         IF DictHas(d.qdigest, parent_bucket_id) THEN @ ELSE @ + 1,
                     !.qdigest = DictSet(@, parent_bucket_id, family_counts)]
        IN  delete_bucket_if_exists(
                delete_bucket_if_exists(d1, current_bucket_id), sibling_bucket_id)

merge_if_needed(d, current_bucket_id) ==
    IF ~DictHas(d.qdigest, current_bucket_id) THEN d
    ELSE
    LET bucket_counts == DictGet(d.qdigest, current_bucket_id, 0) IN
    IF current_bucket_id = ROOT_BUCKET
    THEN IF bucket_counts <= 0 THEN delete_bucket_if_exists(d, ROOT_BUCKET) ELSE d
    ELSE
    LET parent_bucket_id      == bucket_parent_id(current_bucket_id)
        sibling_bucket_id     == bucket_sibling_id(current_bucket_id)
        bucket_parent_counts  == DictGet(d.qdigest, parent_bucket_id, 0)
        bucket_sibling_counts == DictGet(d.qdigest, sibling_bucket_id, 0)
        family_counts == bucket_counts + bucket_parent_counts + bucket_sibling_counts
    IN  IF is_worth_to_store(d, family_counts) THEN d
        ELSE
        LET d1 == [d EXCEPT
                     !.number_of_buckets =
                         IF DictHas(d.qdigest, parent_bucket_id) THEN @ ELSE @ + 1,
                     !.qdigest = DictSet(@, parent_bucket_id, family_counts)]
        IN  delete_bucket_if_exists(
                delete_bucket_if_exists(d1, current_bucket_id), sibling_bucket_id)

\* for bucket_id in buckets: self._merge_if_needed(bucket_id)
RECURSIVE MergeBuckets(_, _)
MergeBuckets(d, buckets) ==
    IF buckets = <<>> THEN d
    ELSE MergeBuckets(merge_if_needed(d, Head(buckets)), Tail(buckets))

\* while level > 0: ...; level -= 1
RECURSIVE CompressFrom(_, _)
CompressFrom(d, level) ==
    IF level > 0
    THEN CompressFrom(MergeBuckets(d, buckets_on_level(d, level)), level - 1)
    ELSE d

compress(d) ==
    IF d.number_of_buckets < 2 THEN d ELSE CompressFrom(d, d.tree_height)

\* while bucket_id > 0: look the bucket up, else move to the parent
RECURSIVE ClosestParent(_, _)
ClosestParent(q, bucket_id) ==
    IF bucket_id > 0
    THEN IF DictHas(q, bucket_id) THEN bucket_id
         ELSE ClosestParent(q, bucket_parent_id(bucket_id))
    ELSE 0

\* a variant of the loop of add that creates no parent
create_no_parents(d, bucket_id, closest) == d

\* the loop of add that creates the missing parents with 0 counts
RECURSIVE CreateParents(_, _, _)
CreateParents(d, bucket_id, closest) ==
    IF bucket_id > 0
    THEN LET parent == bucket_parent_id(bucket_id)
         IN  IF parent <= closest THEN d
             ELSE CreateParents(
                     [d EXCEPT !.qdigest = DictSet(@, parent, 0),
                               !.number_of_buckets = @ + 1],
                     parent, closest)
    ELSE d

\* add past its range check
add_in_range(d, element, compress_flag) ==
    LET canonical_bucket_id == bucket_canonical_id(d, element)
        closest_parent_id_in_digest == ClosestParent(d.qdigest, canonical_bucket_id)
        d1 == IF closest_parent_id_in_digest = canonical_bucket_id
              THEN [d EXCEPT !.qdigest =
                        DictSet(@, canonical_bucket_id,
                                DictGet(@, canonical_bucket_id, 0) + 1)]
              ELSE CreateParents(
                        [d EXCEPT !.number_of_buckets = @ + 1,
                                  !.qdigest = DictSet(@, canonical_bucket_id, 1)],
                        canonical_bucket_id, closest_parent_id_in_digest)
        d2 == [d1 EXCEPT !.exact_boundary_value = @ + 1]
    IN  [err |-> "none", d |-> IF compress_flag THEN compress(d2) ELSE d2]

\* a variant of add that has counted the element before it rejects it
add_counts_rejected(d, element, compress_flag) ==
    IF element > d.max_range \/ element < d.min_range
    THEN [err |-> "ValueError: Value out of range",
          d   |-> [d EXCEPT !.exact_boundary_value = @ + 1]]
    ELSE add_in_range(d, element, compress_flag)

\* result: err is "none" or the exception raised; d is the digest afterwards
add(d, element, compress_flag) ==
    IF element > d.max_range \/ element < d.min_range
    THEN [err |-> "ValueError: Value out of range", d |-> d]
    ELSE add_in_range(d, element, compress_flag)

\* a variant of the loop of merge that overwrites the counts of shared buckets
RECURSIVE merged_counts_overwriting(_, _)
merged_counts_overwriting(q, items) ==
    IF items = <<>> THEN q
    ELSE merged_counts_overwriting(DictSet(q, Head(items)[1], Head(items)[2]), Tail(items))

\* a variant of the loop of merge that skips the buckets self does not hold
RECURSIVE merged_counts_shared_only(_, _)
merged_counts_shared_only(q, items) ==
    IF items = <<>> THEN q
    ELSE LET bucket_id == Head(items)[1]
             counts    == Head(items)[2]
         IN  merged_counts_shared_only(
                IF DictHas(q, bucket_id)
                THEN DictSet(q, bucket_id, DictGet(q, bucket_id, 0) + counts)
                ELSE q,
                Tail(items))

\* for bucket_id, counts in other._qdigest.items(): add or set the counts
RECURSIVE merged_counts(_, _)
merged_counts(q, items) ==
    IF items = <<>> THEN q
    ELSE LET bucket_id == Head(items)[1]
             counts    == Head(items)[2]
         IN  merged_counts(
                IF DictHas(q, bucket_id)
                THEN DictSet(q, bucket_id, DictGet(q, bucket_id, 0) + counts)
                ELSE DictSet(q, bucket_id, counts),
                Tail(items))

\* merge past its two checks
merge_accepted(self, other) ==
    LET q1 == merged_counts(self.qdigest, other.qdigest)
        d1 == [self EXCEPT !.qdigest = q1,
                           !.number_of_buckets = Len(q1),
                           !.exact_boundary_value = DictSum(q1)]
    IN  [err |-> "none", d |-> compress(d1)]

\* a variant of merge that does not compare the ranges
merge_ignoring_range(self, other) ==
    IF other.compression_factor # self.compression_factor
    THEN [err |-> "ValueError: Compression factors have to be equal", d |-> self]
    ELSE merge_accepted(self, other)

\* result: err and the state of self afterwards (other is only read)
merge(self, other) ==
    IF other.compression_factor # self.compression_factor
    THEN [err |-> "ValueError: Compression factors have to be equal", d |-> self]
    ELSE IF other.range_in_bits # self.range_in_bits
    THEN [err |-> "ValueError: Ranges have to be equal", d |-> self]
    ELSE merge_accepted(self, other)

\* ---------------------------------------------------------- RandomSampling
\* _MetaBuffer keeps an array and an occupancy mask; populate fills a buffer
\* from its first slot and pop_elements clears all of it, so the occupied
\* slots of a buffer are a prefix: buffer[b] is the sequence of the elements
\* in the occupied slots of buffer b, in slot order.
\* failed: an exception has left _collapse (no two buffers share a level).
NewSampling(number_of_buffers, buffer_capacity, height) ==
    [ number_of_buffers   |-> number_of_buffers,
      elements_per_buffer |-> buffer_capacity,
      height              |-> height,
      number_of_elements  |-> 0,
      queue               |-> <<>>,
      buffer              |-> [b \in 1..number_of_buffers |-> <<>>],
      levels              |-> [b \in 1..number_of_buffers |-> 0],
      failed              |-> FALSE ]

Reverse(seq) == [i \in 1..Len(seq) |-> seq[Len(seq) + 1 - i]]

RECURSIVE Insert(_, _)
Insert(sorted, x) ==
    IF sorted = <<>> THEN <<x>>
    ELSE IF x <= Head(sorted) THEN <<x>> \o sorted
    ELSE <<Head(sorted)>> \o Insert(Tail(sorted), x)

\* list.sort()
RECURSIVE Sorted(_)
Sorted(seq) == IF seq = <<>> THEN <<>> ELSE Insert(Sorted(Tail(seq)), Head(seq))

\* ceil(log2(n)) for n >= 1
RECURSIVE CeilLog2(_)
CeilLog2(n) == IF n <= 1 THEN 0 ELSE 1 + CeilLog2((n + 1) \div 2)

is_empty(s, buffer_id) == s.buffer[buffer_id] = <<>>

capacity(s, buffer_id) == s.elements_per_buffer - Len(s.buffer[buffer_id])

\* populate fills the slots in order with elements.pop(), the last one first
populate(s, buffer_id, elements) ==
    [s EXCEPT !.buffer[buffer_id] = Reverse(elements)]

\* number_of_elements / elements_per_buffer divides two C integers; log2(0)
\* is -inf and max(0, -inf) is 0
active_level(s) ==
    IF s.number_of_elements < 1 THEN 0
    ELSE LET ratio == s.number_of_elements \div s.elements_per_buffer
         IN  IF ratio = 0 THEN 0
             ELSE LET level == CeilLog2(ratio) - s.height + 1
                  IN  IF level > 0 THEN level ELSE 0

\* sample(population, k): the sequences of k elements at distinct positions
SampleOf(population, k) ==
    { [i \in 1..k |-> population[pos[i]]] :
        pos \in { f \in [1..k -> 1..Len(population)] :
                    \A i, j \in 1..k : i # j => f[i] # f[j] } }

\* candidates[start_pos::2][:capacity]
Thinned(candidates, start_pos, cap) ==
    LET every_other == [i \in 1..((Len(candidates) - start_pos + 1) \div 2) |->
                            candidates[start_pos + 2 * i - 1]]
    IN  IF Len(every_other) > cap THEN SubSeq(every_other, 1, cap) ELSE every_other

MaxLevel(s) ==
    CHOOSE l \in {s.levels[b] : b \in 1..s.number_of_buffers} :
        \A b \in 1..s.number_of_buffers : s.levels[b] <= l

\* a variant of the level given to the collapsed buffer: the level it had
collapsed_level_unchanged(current_level) == current_level

\* self._levels[buffer_id_1] = current_level + 1
collapsed_level(current_level) == current_level + 1

\* the states _collapse can leave
collapse(s) ==
    LET nonempty_buffer_ids(level) ==
            { b \in 1..s.number_of_buffers : s.levels[b] = level /\ ~is_empty(s, b) }
        found == { l \in 0..MaxLevel(s) : Cardinality(nonempty_buffer_ids(l)) >= 2 }
    IN  IF found = {} THEN { [s EXCEPT !.failed = TRUE] }
        ELSE
        LET current_level == CHOOSE l \in found : \A m \in found : l <= m
            ids == nonempty_buffer_ids(current_level)
            Result(buffer_id_1, buffer_id_2, start_pos) ==
                LET candidates == Sorted(s.buffer[buffer_id_1] \o s.buffer[buffer_id_2])
                    popped     == [s EXCEPT !.buffer[buffer_id_1] = <<>>,
                                            !.buffer[buffer_id_2] = <<>>]
                    cap        == capacity(popped, buffer_id_1)
                    kept       == IF cap < Len(candidates)
                                  THEN Thinned(candidates, start_pos, cap)
                                  ELSE candidates
                IN  [populate(popped, buffer_id_1, kept)
                        EXCEPT !.levels[buffer_id_1] = collapsed_level(current_level)]
        IN  { Result(b1, b2, start_pos) :
                b1 \in ids, b2 \in ids, start_pos \in 0..1 } \
            { Result(b, b, start_pos) : b \in ids, start_pos \in 0..1 }

FirstEmpty(s) ==
    CHOOSE b \in 1..s.number_of_buffers :
        /\ is_empty(s, b)
        /\ \A c \in 1..(b - 1) : ~is_empty(s, c)

\* the outcomes of _find_empty_buffer: the state and the buffer found
RECURSIVE find_empty_buffer(_)
find_empty_buffer(s) ==
    IF \E b \in 1..s.number_of_buffers : is_empty(s, b)
    THEN { [s |-> s, buffer_id |-> FirstEmpty(s)] }
    ELSE UNION { IF c.failed THEN { [s |-> c, buffer_id |-> 0] }
                 ELSE find_empty_buffer(c) : c \in collapse(s) }

\* a variant of the count kept by _commit: the elements that fit the buffer
elements_committed_stored(s, num_of_candidates) ==
    s.number_of_elements +
        (IF num_of_candidates < s.elements_per_buffer
         THEN num_of_candidates ELSE s.elements_per_buffer)

\* self._number_of_elements += num_of_candidates
elements_committed(s, num_of_candidates) == s.number_of_elements + num_of_candidates

\* the states _commit can leave
commit(s, force) ==
    LET level             == active_level(s)
        chunk_size        == 2^level
        autocommit_size   == chunk_size * s.elements_per_buffer
        num_of_candidates == Len(s.queue)
    IN  IF num_of_candidates < 1 THEN {s}
        ELSE IF num_of_candidates < autocommit_size /\ ~force THEN {s}
        ELSE
        LET candidates == Reverse(s.queue)
            s1 == [s EXCEPT !.queue = <<>>,
                            !.number_of_elements =
                                elements_committed(s, num_of_candidates)]
            Populated(f) ==
                LET cap == capacity(f.s, f.buffer_id)
                    chosen == IF cap < num_of_candidates
                              THEN SampleOf(candidates, cap)
                              ELSE {candidates}
                IN  { [populate(f.s, f.buffer_id, c) EXCEPT !.levels[f.buffer_id] = level]
                        : c \in chosen }
        IN  UNION { IF f.s.failed THEN {f.s} ELSE Populated(f)
                        : f \in find_empty_buffer(s1) }

rs_add(s, element) == commit([s EXCEPT !.queue = Append(@, element)], FALSE)

rs_count(s) == s.number_of_elements

\* the rank computed from a committed state
RankOf(s, element) ==
    LET RECURSIVE Smaller(_)
        Smaller(elements) ==
            IF elements = <<>> THEN 0
            ELSE (IF Head(elements) > element THEN 0 ELSE 1) + Smaller(Tail(elements))
        RECURSIVE Over(_)
        Over(buffer_id) ==
            IF buffer_id > s.number_of_buffers THEN 0
            ELSE (IF is_empty(s, buffer_id) THEN 0
                  ELSE 2^(s.levels[buffer_id]) * Smaller(s.buffer[buffer_id]))
                 + Over(buffer_id + 1)
    IN  Over(1)

\* the outcomes of a query: the error or the value, and the state left
rs_inverse_quantile_query(s, element) ==
    { IF c.failed THEN [err |-> "AssertionError", value |-> 0, s |-> c]
      ELSE [err |-> "none", value |-> RankOf(c, element), s |-> c]
        : c \in commit(s, TRUE) }

rs_interval_query(s, start, end) ==
    IF start >= end THEN { [err |-> "ValueError: Invalid interval", value |-> 0, s |-> s] }
    ELSE { IF c.failed THEN [err |-> "AssertionError", value |-> 0, s |-> c]
           ELSE [err |-> "none", value |-> RankOf(c, end) - RankOf(c, start), s |-> c]
             : c \in commit(s, TRUE) }

\* list(set(elements)): the distinct stored elements, small integers in
\* increasing order
DistinctElements(s) ==
    LET all == UNION { { s.buffer[b][i] : i \in 1..Len(s.buffer[b]) }
                        : b \in 1..s.number_of_buffers }
        RECURSIVE Ascending(_)
        Ascending(set) ==
            IF set = {} THEN <<>>
            ELSE LET least == CHOOSE x \in set : \A y \in set : x <= y
                 IN  <<least>> \o Ascending(set \ {least})
    IN  Ascending(all)

Abs(x) == IF x < 0 THEN 0 - x ELSE x

\* elements[ranks.index(min(ranks))], ranks being abs(rank - n * quantile)
ClosestElement(s, quantile) ==
    LET elements == DistinctElements(s)
        Dist(i) == Abs(RankOf(s, elements[i]) * quantile[2]
                        - s.number_of_elements * quantile[1])
        first == CHOOSE i \in 1..Len(elements) :
                    /\ \A j \in 1..Len(elements) : Dist(i) <= Dist(j)
                    /\ \A j \in 1..(i - 1) : Dist(j) > Dist(i)
    IN  elements[first]

rs_quantile_query(s, quantile) ==
    IF quantile[1] < 0 \/ quantile[1] > quantile[2]
    THEN { [err |-> "ValueError: Quantile has to be in [0, 1] interval",
            value |-> 0, s |-> s] }
    ELSE IF s.number_of_elements < 1
    THEN { [err |-> "ValueError: Cannot estimate quantile from an empty structure",
            value |-> 0, s |-> s] }
    ELSE { IF c.failed THEN [err |-> "AssertionError", value |-> 0, s |-> c]
           ELSE [err |-> "none", value |-> ClosestElement(c, quantile), s |-> c]
             : c \in commit(s, TRUE) }

\* ------------------------------------------------- QuantileDigest queries
\* key=_sortkey_buckets_by_range gives (level, -bucket_id); bucket_id is a
\* uint64_t, its negation 2^64 - bucket_id orders the ids as -bucket_id does
sortkey_buckets_by_range(bucket) == <<bucket_level(bucket[1]), 0 - bucket[1]>>

KeyLess(k1, k2) == k1[1] < k2[1] \/ (k1[1] = k2[1] /\ k1[2] < k2[2])

\* the place of bucket b in a list that is in descending order of the keys
RECURSIVE InsertByKey(_, _)
InsertByKey(ordered, b) ==
    IF ordered = <<>> THEN <<b>>
    ELSE IF KeyLess(sortkey_buckets_by_range(Head(ordered)), sortkey_buckets_by_range(b))
    THEN <<b>> \o ordered
    ELSE <<Head(ordered)>> \o InsertByKey(Tail(ordered), b)

\* sorted(self._qdigest.items(), key=..., reverse=True): the keys are distinct
RECURSIVE SortedReverse(_)
SortedReverse(items) ==
    IF items = <<>> THEN <<>>
    ELSE InsertByKey(SortedReverse(Tail(items)), Head(items))

ordered_qdigest(d) == SortedReverse(d.qdigest)

\* a variant of _bucket_range whose partition has an exclusive upper end
bucket_range_exclusive_end(d, bucket_id) ==
    LET level             == bucket_level(bucket_id)
        on_level          == 2^(level - 1)
        width             == d.max_range - d.min_range + 1
        bucket_position   == uint32_t(bucket_id % on_level)
    IN  << d.min_range + ((width * bucket_position) \div on_level),
           d.min_range + ((width * (bucket_position + 1)) \div on_level) >>

\* delta = (max_range - min_range) / float(buckets_on_level); the products
\* ceil(delta * position) and floor(delta * (position + 1)) are computed here
\* over the rationals, which is what the float arithmetic gives for the
\* ranges of Ranges
bucket_range(d, bucket_id) ==
    LET level             == bucket_level(bucket_id)
        on_level          == 2^(level - 1)
        width             == d.max_range - d.min_range
        bucket_position   == uint32_t(bucket_id % on_level)
    IN  << d.min_range + ((width * bucket_position + on_level - 1) \div on_level),
           d.min_range + ((width * (bucket_position + 1)) \div on_level) >>

\* the for loop of quantile_query from position i on: the bucket_id it ends with
RECURSIVE QuantileScan(_, _, _, _, _)
QuantileScan(ordered, i, rank, count_all, quantile) ==
    LET rank1 == rank + ordered[i][2] IN
    IF rank1 * quantile[2] > count_all * quantile[1] \/ i = Len(ordered)
    THEN ordered[i][1]
    ELSE QuantileScan(ordered, i + 1, rank1, count_all, quantile)

\* quantile is the fraction <<numerator, denominator>>
quantile_query(d, quantile) ==
    IF quantile[1] < 0 \/ quantile[1] > quantile[2]
    THEN [err |-> "ValueError: Quantile has to be in [0, 1] interval", value |-> 0]
    ELSE LET ordered == ordered_qdigest(d) IN
         IF ordered = <<>>
         THEN \* the loop body never ran: bucket_id is read unassigned
              [err |-> "UnboundLocalError", value |-> 0]
         ELSE LET bucket_id == QuantileScan(ordered, 1, 0, count(d), quantile)
              IN  [err |-> "none", value |-> uint32_t(bucket_range(d, bucket_id)[2])]

RECURSIVE RankScan(_, _, _)
RankScan(d, ordered, element) ==
    IF ordered = <<>> THEN 0
    ELSE (IF element > uint32_t(bucket_range(d, Head(ordered)[1])[2])
          THEN Head(ordered)[2] ELSE 0) + RankScan(d, Tail(ordered), element)

inverse_quantile_query(d, element) ==
    IF element > d.max_range \/ element < d.min_range
    THEN [err |-> "ValueError: Value out of range", value |-> 0]
    ELSE [err |-> "none", value |-> RankScan(d, ordered_qdigest(d), element)]

\* a variant of interval_query that subtracts the ranks the other way round
interval_query_swapped(d, start, end) ==
    IF start >= end THEN [err |-> "ValueError: Invalid interval", value |-> 0]
    ELSE IF start < d.min_range \/ start > d.max_range
    THEN [err |-> "ValueError: Interval lower boundary out of range", value |-> 0]
    ELSE IF end < d.min_range \/ end > d.max_range
    THEN [err |-> "ValueError: Interval upper boundary out of range", value |-> 0]
    ELSE LET start_rank == inverse_quantile_query(d, start).value
             end_rank   == inverse_quantile_query(d, end).value
         IN  [err |-> "none", value |-> start_rank - end_rank]

interval_query(d, start, end) ==
    IF start >= end THEN [err |-> "ValueError: Invalid interval", value |-> 0]
    ELSE IF start < d.min_range \/ start > d.max_range
    THEN [err |-> "ValueError: Interval lower boundary out of range", value |-> 0]
    ELSE IF end < d.min_range \/ end > d.max_range
    THEN [err |-> "ValueError: Interval upper boundary out of range", value |-> 0]
    ELSE LET start_rank == inverse_quantile_query(d, start).value
             end_rank   == inverse_quantile_query(d, end).value
         IN  [err |-> "none", value |-> end_rank - start_rank]

\* ------------------------------------------- bucket ids of up to 64 bits
\* The ids of a digest of 32 bits of range need 33 bits. An id is kept here
\* as <<high, low>>, its value being high * 65536 + low with low < 65536.
Id64(high, low) == <<high + low \div 65536, low % 65536>>

\* <uint64_t>1 << bits
Shifted64(bits) == IF bits < 16 THEN <<0, 2^bits>> ELSE <<2^(bits - 16), 0>>

Plus64(a, b) == Id64(a[1] + b[1], a[2] + b[2])

\* a - b for a >= b
Minus64(a, b) == Id64(a[1] - b[1] - 1, a[2] - b[2] + 65536)

Half64(a) == <<a[1] \div 2, a[2] \div 2 + (a[1] % 2) * 32768>>

Xor64(a) == <<a[1], Xor1(a[2])>>

AtLeast64(a, b) == a[1] > b[1] \/ (a[1] = b[1] /\ a[2] >= b[2])

\* the value received by a parameter declared uint32_t
uint32_of_64(a) == <<a[1] % 65536, a[2]>>

\* _max_number_of_nodes - _max_range + value
bucket_canonical_id_64(range_in_bits, value) ==
    LET max_range           == Minus64(Shifted64(range_in_bits), <<0, 1>>)
        max_number_of_nodes == Minus64(Shifted64(range_in_bits + 1), <<0, 1>>)
    IN  Plus64(Minus64(max_number_of_nodes, max_range), value)

\* cdef uint64_t _bucket_parent_id(self, uint32_t bucket_id)
bucket_parent_id_64(bucket_id) == Half64(uint32_of_64(bucket_id))

\* cdef uint64_t _bucket_sibling_id(self, uint32_t bucket_id):
\* 2 * parent_bucket_id + current_bucket_shift ^ 1
bucket_sibling_id_64(bucket_id) ==
    LET received             == uint32_of_64(bucket_id)
        parent_bucket_id     == bucket_parent_id_64(received)
        current_bucket_shift == received[2] % 2
    IN  Xor64(Plus64(Plus64(parent_bucket_id, parent_bucket_id),
                     <<0, current_bucket_shift>>))

\* ----------------------------------------- bucket ranges in single precision
\* the float nearest to the integer n (24 bits of mantissa, ties to even)
float_of(n) ==
    IF bit_length(n) <= 24 THEN n
    ELSE LET ulp     == 2^(bit_length(n) - 24)
             below   == (n \div ulp) * ulp
             rest    == n % ulp
         IN  IF 2 * rest < ulp THEN below
             ELSE IF 2 * rest > ulp THEN below + ulp
             ELSE IF (n \div ulp) % 2 = 0 THEN below ELSE below + ulp

\* _bucket_range with `cdef float delta`: delta is the float nearest to
\* (max_range - min_range) / buckets_on_level, and delta * bucket_position is
\* a product of floats. buckets_on_level is a power of two, so the floats are
\* kept as numerators over buckets_on_level.
bucket_range_float(range_in_bits, bucket_id) ==
    LET level            == bucket_level(bucket_id)
        on_level         == 2^(level - 1)
        min_range        == 0
        max_range        == 2^range_in_bits - 1
        delta            == float_of(max_range - min_range)
        bucket_position  == bucket_id % on_level
        start_product    == float_of(delta * float_of(bucket_position))
        end_product      == float_of(delta * float_of(bucket_position + 1))
    IN  << min_range + ((start_product + on_level - 1) \div on_level),
           min_range + (end_product \div on_level) >>

\* --------------------------------------------------------------- the system
\* ---------------------------------------------- BitCounter, BitVectorCounter
NUMBER_OF_SUBCOUNTERS == 2
lowest == 0     \* the counter in the bits 0bxxxx0000
highest == 1    \* the counter in the bits 0b0000xxxx

\* a & b and a ^ b on unsigned integers
RECURSIVE BitAnd(_, _)
BitAnd(a, b) ==
    IF a = 0 \/ b = 0 THEN 0
    ELSE (a % 2) * (b % 2) + 2 * BitAnd(a \div 2, b \div 2)

RECURSIVE BitXor(_, _)
BitXor(a, b) ==
    IF a = 0 /\ b = 0 THEN 0
    ELSE (((a % 2) + (b % 2)) % 2) + 2 * BitXor(a \div 2, b \div 2)

uint8_t(n) == n % 256

\* add(summand1, summand2) of BitCounter.cpp: addition by bitwise operations
RECURSIVE bitwise_add(_, _)
bitwise_add(summand1, summand2) ==
    IF summand2 = 0 THEN summand1
    ELSE bitwise_add(BitXor(summand1, summand2),
                     uint8_t(BitAnd(summand1, summand2) * 2))

\* a variant of BitCounter::inc without the test for the maximal value
inc_wrapping(counter, counter_number) ==
    IF counter_number = highest
    THEN bitwise_add(BitAnd(counter, 15), 1)
    ELSE IF counter_number = lowest
    THEN bitwise_add(BitAnd(counter, 240), 16)
    ELSE counter

\* BitCounter::inc: the byte afterwards
inc(counter, counter_number) ==
    LET c1 == IF counter_number = highest /\ BitAnd(counter, 15) # 15
              THEN bitwise_add(BitAnd(counter, 15), 1) ELSE counter
    IN  IF counter_number = lowest /\ BitAnd(c1, 240) # 240
        THEN bitwise_add(BitAnd(c1, 240), 16) ELSE c1

\* BitCounter::dec: the byte afterwards
dec(counter, counter_number) ==
    LET c1 == IF counter_number = highest /\ BitAnd(counter, 15) # 0
              THEN BitXor(BitAnd(counter, 15), 1) ELSE counter
    IN  IF counter_number = lowest /\ BitAnd(c1, 240) # 0
        THEN BitXor(BitAnd(c1, 240), 16) ELSE c1

\* BitCounter::value
value(counter, counter_number) ==
    IF counter_number = highest THEN BitAnd(counter, 15)
    ELSE IF counter_number = lowest THEN BitAnd(counter, 240) \div 16
    ELSE 0

\* BitVectorCounter(length): vector[bucket] is the byte of BitCounter bucket
NewBitVectorCounter(length) ==
    LET rounded == length + ((NUMBER_OF_SUBCOUNTERS - (length % NUMBER_OF_SUBCOUNTERS))
                                % NUMBER_OF_SUBCOUNTERS)
    IN  [length |-> rounded,
         size   |-> rounded \div NUMBER_OF_SUBCOUNTERS,
         vector |-> [bucket \in 0..((rounded \div NUMBER_OF_SUBCOUNTERS) - 1) |-> 0]]

increment(b, index) ==
    IF index >= b.length THEN [err |-> "IndexError", b |-> b]
    ELSE LET bucket         == index \div NUMBER_OF_SUBCOUNTERS
             counter_number == index % NUMBER_OF_SUBCOUNTERS
         IN  [err |-> "none",
              b   |-> [b EXCEPT !.vector[bucket] = inc(@, counter_number)]]

decrement(b, index) ==
    IF index >= b.length THEN [err |-> "IndexError", b |-> b]
    ELSE LET bucket         == index \div NUMBER_OF_SUBCOUNTERS
             counter_number == index % NUMBER_OF_SUBCOUNTERS
         IN  [err |-> "none",
              b   |-> [b EXCEPT !.vector[bucket] = dec(@, counter_number)]]

\* __getitem__ for an index of the vector
getitem(b, index) ==
    value(b.vector[index \div NUMBER_OF_SUBCOUNTERS], index % NUMBER_OF_SUBCOUNTERS)

ValueErrors ==
    { "ValueError: Value out of range",
      "ValueError: Quantile has to be in [0, 1] interval",
      "ValueError: Invalid interval",
      "ValueError: Interval lower boundary out of range",
      "ValueError: Interval upper boundary out of range",
      "ValueError: Compression factors have to be equal",
      "ValueError: Ranges have to be equal",
      "ValueError: Cannot estimate quantile from an empty structure" }

NoCall == [op |-> "none", self |-> 0, err |-> "none", value |-> 0]

\* the two digests are created with equal parameters, with different
\* compression factors, or with different ranges
Created ==
    { [i \in Digests |-> NewDigest(2, k)] : k \in CompressionFactors } \cup
    { [i \in Digests |-> NewDigest(1, k)] : k \in CompressionFactors } \cup
    { <<NewDigest(2, 2), NewDigest(2, 1)>>, <<NewDigest(2, 2), NewDigest(1, 2)>> }

SamplerIdle == rs = NewSampling(2, 1, 1) /\ added = 0

CounterIdle == bvc = NewBitVectorCounter(CounterLength)

\* no value recorded for a digest
NoValues(d) == [v \in d.min_range..d.max_range |-> 0]

\* the digests as created: nothing inserted, compress not run
Untouched ==
    /\ inserted = [i \in Digests |-> 0]
    /\ values = [i \in Digests |-> NoValues(qd[i])]
    /\ compressed = [i \in Digests |-> FALSE]

\* compress has run on digest i when it held so many buckets: unless compress
\* returned at its guard, the values are no longer recorded
Forget(i, number_of_buckets) ==
    IF number_of_buckets < 2 THEN UNCHANGED <<values, compressed>>
    ELSE /\ compressed' = [compressed EXCEPT ![i] = TRUE]
         /\ values' = [values EXCEPT ![i] = NoValues(qd[i])]

Init ==
    /\ qd \in Created
    /\ Untouched
    /\ last = NoCall
    /\ SamplerIdle
    /\ CounterIdle

\* elements held by the digests together; the model stops adding at MaxTotal
Total == count(qd[1]) + count(qd[2])

\* the values offered to digest i: its range and the first value above it
Elements(i) == 0..(qd[i].max_range + 1)

\* add on digest i, the model accepting elements while fewer than budget are held
AddWithin(i, element, compress_flag, budget) ==
    \* an element of the range is accepted by add: it has to fit the budget
    /\ (qd[i].min_range <= element /\ element <= qd[i].max_range) => Total < budget
    /\ LET r == add(qd[i], element, compress_flag) IN
        /\ qd' = [qd EXCEPT ![i] = r.d]
        /\ inserted' = [inserted EXCEPT ![i] = IF r.err = "none" THEN @ + 1 ELSE @]
        /\ IF r.err # "none" \/ (compressed[i] /\ ~compress_flag)
           THEN UNCHANGED <<values, compressed>>
           ELSE IF compress_flag
           THEN Forget(i, add(qd[i], element, FALSE).d.number_of_buckets)
           ELSE /\ values' = [values EXCEPT ![i][element] = @ + 1]
                /\ UNCHANGED compressed
        /\ last' = [op |-> "add", self |-> i, err |-> r.err, value |-> 0]
        /\ UNCHANGED <<rs, added, bvc>>

Add(i, element, compress_flag) == AddWithin(i, element, compress_flag, MaxTotal)

Compress(i) ==
    /\ qd' = [qd EXCEPT ![i] = compress(qd[i])]
    /\ Forget(i, qd[i].number_of_buckets)
    /\ last' = [op |-> "compress", self |-> i, err |-> "none", value |-> 0]
    /\ UNCHANGED <<inserted, rs, added, bvc>>

Merge(i, j) ==
    /\ i # j
    \* digests of equal parameters are merged: the sum has to fit the budget
    /\ (qd[i].compression_factor = qd[j].compression_factor
            /\ qd[i].range_in_bits = qd[j].range_in_bits)
        => Total + count(qd[j]) <= MaxTotal
    /\ LET r == merge(qd[i], qd[j]) IN
        /\ qd' = [qd EXCEPT ![i] = r.d]
        /\ inserted' = [inserted EXCEPT ![i] = IF r.err = "none" THEN @ + inserted[j] ELSE @]
        /\ IF r.err = "none"
           THEN Forget(i, Len(merged_counts(qd[i].qdigest, qd[j].qdigest)))
           ELSE UNCHANGED <<values, compressed>>
        /\ last' = [op |-> "merge", self |-> i, err |-> r.err, value |-> 0]
        /\ UNCHANGED <<rs, added, bvc>>

Next ==
    \/ \E i \in Digests : \E e \in Elements(i), c \in BOOLEAN : Add(i, e, c)
    \/ \E i \in Digests : Compress(i)
    \/ \E i, j \in Digests : Merge(i, j)

Spec == Init /\ [][Next]_vars

\* ------------------------------------------- one digest and its queries
Quantiles == { <<0 - 1, 4>>, <<0, 4>>, <<1, 4>>, <<2, 4>>, <<3, 4>>, <<4, 4>>, <<5, 4>> }

InitQuery ==
    /\ qd \in { [i \in Digests |-> NewDigest(r, k)] : r \in Ranges, k \in CompressionFactors }
    /\ Untouched
    /\ last = NoCall
    /\ SamplerIdle
    /\ CounterIdle

QuantileQuery(i, quantile) ==
    LET r == quantile_query(qd[i], quantile) IN
    /\ last' = [op |-> "quantile_query", self |-> i, err |-> r.err, value |-> r.value]
    /\ UNCHANGED <<qd, inserted, rs, added, values, compressed, bvc>>

InverseQuantileQuery(i, element) ==
    LET r == inverse_quantile_query(qd[i], element) IN
    /\ last' = [op |-> "inverse_quantile_query", self |-> i, err |-> r.err, value |-> r.value]
    /\ UNCHANGED <<qd, inserted, rs, added, values, compressed, bvc>>

IntervalQuery(i, start, end) ==
    LET r == interval_query(qd[i], start, end) IN
    /\ last' = [op |-> "interval_query", self |-> i, err |-> r.err, value |-> r.value]
    /\ UNCHANGED <<qd, inserted, rs, added, values, compressed, bvc>>

NextQuery ==
    \/ \E e \in Elements(1), c \in BOOLEAN : Add(1, e, c)
    \/ Compress(1)
    \/ \E quantile \in Quantiles : QuantileQuery(1, quantile)
    \/ \E e \in Elements(1) : InverseQuantileQuery(1, e)
    \/ \E start \in Elements(1) : \E end \in start..(qd[1].max_range + 1) :
            IntervalQuery(1, start, end)

SpecQuery == InitQuery /\ [][NextQuery]_vars

\* --------------------------------------- one digest, adds and compress only
NextCompress ==
    \/ \E e \in Elements(1), c \in BOOLEAN : AddWithin(1, e, c, MaxCompressed)
    \/ Compress(1)

SpecCompress == InitQuery /\ [][NextCompress]_vars

\* ------------------- one digest of 16 values fed a stream, compress at will
\* the elements arrive in this order; the caller chooses which add compresses
\* and when compress is called
Stream == <<0, 9, 9, 2, 8, 13, 13, 12, 7, 8, 4, 13, 11, 14, 9, 12, 13, 1, 6>>

InitStream ==
    /\ qd = [i \in Digests |-> NewDigest(4, 4)]
    /\ Untouched
    /\ last = NoCall
    /\ SamplerIdle
    /\ CounterIdle

NextStream ==
    \/ \E c \in BOOLEAN :
            /\ inserted[1] < Len(Stream)
            /\ AddWithin(1, Stream[inserted[1] + 1], c, Len(Stream))
    \/ Compress(1)

SpecStream == InitStream /\ [][NextStream]_vars

\* ------------------------------------------------------------ the sampler
\* (number_of_buffers, buffer_capacity, height) of the sampler
Samplings == { <<2, 1, 1>>, <<2, 2, 1>>, <<2, 1, 2>>, <<3, 1, 1>> }
Values == {1, 2}

InitSampling ==
    /\ rs \in { NewSampling(c[1], c[2], c[3]) : c \in Samplings }
    /\ added = 0
    /\ last = NoCall
    /\ qd = [i \in Digests |-> NewDigest(1, 1)]
    /\ Untouched
    /\ CounterIdle

SamplingAdd(element) ==
    /\ ~rs.failed
    /\ added < MaxAdds
    /\ \E s \in rs_add(rs, element) :
        /\ rs' = s
        /\ last' = [op |-> "rs_add", self |-> 0,
                    err |-> IF s.failed THEN "AssertionError" ELSE "none", value |-> 0]
    /\ added' = added + 1
    /\ UNCHANGED <<qd, inserted, values, compressed, bvc>>

SamplingQuantileQuery(quantile) ==
    /\ ~rs.failed
    /\ \E r \in rs_quantile_query(rs, quantile) :
        /\ rs' = r.s
        /\ last' = [op |-> "rs_quantile_query", self |-> 0, err |-> r.err, value |-> r.value]
    /\ UNCHANGED <<qd, inserted, added, values, compressed, bvc>>

SamplingInverseQuantileQuery(element) ==
    /\ ~rs.failed
    /\ \E r \in rs_inverse_quantile_query(rs, element) :
        /\ rs' = r.s
        /\ last' = [op |-> "rs_inverse_quantile_query", self |-> 0,
                    err |-> r.err, value |-> r.value]
    /\ UNCHANGED <<qd, inserted, added, values, compressed, bvc>>

SamplingIntervalQuery(start, end) ==
    /\ ~rs.failed
    /\ \E r \in rs_interval_query(rs, start, end) :
        /\ rs' = r.s
        /\ last' = [op |-> "rs_interval_query", self |-> 0, err |-> r.err, value |-> r.value]
    /\ UNCHANGED <<qd, inserted, added, values, compressed, bvc>>

NextSampling ==
    \/ \E element \in Values : SamplingAdd(element)
    \/ \E quantile \in {<<0 - 1, 2>>, <<0, 2>>, <<1, 2>>, <<2, 2>>} :
            SamplingQuantileQuery(quantile)
    \/ \E element \in Values : SamplingInverseQuantileQuery(element)
    \/ \E start, end \in Values : SamplingIntervalQuery(start, end)

SpecSampling == InitSampling /\ [][NextSampling]_vars

\* the sampler under add calls only
NextSamplingAdds == \E element \in Values : SamplingAdd(element)

SpecSamplingAdds == InitSampling /\ [][NextSamplingAdds]_vars

\* ------------------------------------------------- the vector of counters
InitCounter ==
    /\ CounterIdle
    /\ qd = [i \in Digests |-> NewDigest(1, 1)]
    /\ Untouched
    /\ SamplerIdle
    /\ last = NoCall

\* the indices offered: those of the vector and the first one past it
Indices == 0..bvc.length

Increment(index) ==
    LET r == increment(bvc, index) IN
    /\ bvc' = r.b
    /\ last' = [op |-> "increment", self |-> index, err |-> r.err, value |-> 0]
    /\ UNCHANGED <<qd, inserted, rs, added, values, compressed>>

Decrement(index) ==
    LET r == decrement(bvc, index) IN
    /\ bvc' = r.b
    /\ last' = [op |-> "decrement", self |-> index, err |-> r.err, value |-> 0]
    /\ UNCHANGED <<qd, inserted, rs, added, values, compressed>>

NextCounter ==
    \/ \E index \in Indices : Increment(index)
    \/ \E index \in Indices : Decrement(index)

SpecCounter == InitCounter /\ [][NextCounter]_vars

\* --------------------------------------------- the ids of the buckets
\* the values whose leaves are looked at: the ends of the range of 16 bits and
\* of 32 bits and their neighbours
IdValues == { <<high, low>> : high \in {0, 1, 65535}, low \in {0, 1, 2, 65534, 65535} }

\* last.self is range_in_bits and last.value the bucket id the walk is at
InitIds ==
    /\ last = NoCall
    /\ qd = [i \in Digests |-> NewDigest(1, 1)]
    /\ Untouched
    /\ SamplerIdle
    /\ CounterIdle

\* add computes the canonical bucket of an element of the range
CanonicalId(range_in_bits, element) ==
    /\ last.op = "none"
    /\ ~AtLeast64(element, Shifted64(range_in_bits))
    /\ last' = [op |-> "bucket_canonical_id", self |-> range_in_bits, err |-> "none",
                value |-> bucket_canonical_id_64(range_in_bits, element)]
    /\ UNCHANGED <<qd, inserted, rs, added, values, compressed, bvc>>

\* add moves to the parent while bucket_id > 0
ParentId ==
    /\ last.op # "none"
    /\ AtLeast64(last.value, <<0, 1>>)
    /\ last' = [last EXCEPT !.op = "bucket_parent_id",
                            !.value = bucket_parent_id_64(last.value)]
    /\ UNCHANGED <<qd, inserted, rs, added, values, compressed, bvc>>

\* _merge_if_needed looks at the sibling of a bucket below the root
SiblingId ==
    /\ last.op # "none"
    /\ AtLeast64(last.value, <<0, 2>>)
    /\ last' = [last EXCEPT !.op = "bucket_sibling_id",
                            !.value = bucket_sibling_id_64(last.value)]
    /\ UNCHANGED <<qd, inserted, rs, added, values, compressed, bvc>>

NextIds ==
    \/ \E range_in_bits \in 1..MaxRangeInBits, element \in IdValues :
            CanonicalId(range_in_bits, element)
    \/ ParentId
    \/ SiblingId

SpecIds == InitIds /\ [][NextIds]_vars

\* ------------------------------------------- the ranges of the buckets
\* range_in_bits of the digests whose buckets are looked at
RangeBits == {1, 2, 3, 8, 12, 13, 25}

\* the buckets looked at in a digest: each level of the tree down to the one
\* where the products reach the integers of TLC, at both ends of the level
BucketsOf(range_in_bits) ==
    { id \in UNION { { 2^(level - 1), 2^(level - 1) + 1, 2^level - 2, 2^level - 1 }
                        : level \in 1..(range_in_bits + 1) } :
        /\ id >= ROOT_BUCKET
        /\ bucket_level(id) + range_in_bits <= 31 }

\* last.self is range_in_bits, last.value is <<bucket_id, start, end>>
BucketRange(range_in_bits, bucket_id) ==
    /\ last' = [op |-> "bucket_range", self |-> range_in_bits, err |-> "none",
                value |-> <<bucket_id>> \o bucket_range_float(range_in_bits, bucket_id)]
    /\ UNCHANGED <<qd, inserted, rs, added, values, compressed, bvc>>

NextRanges ==
    \E range_in_bits \in RangeBits : \E bucket_id \in BucketsOf(range_in_bits) :
        BucketRange(range_in_bits, bucket_id)

SpecRanges == InitIds /\ [][NextRanges]_vars

\* ------------------------------------------------------------- properties
SameParameters ==
    /\ qd[1].range_in_bits = qd[2].range_in_bits
    /\ qd[1].compression_factor = qd[2].compression_factor

Other(i) == CHOOSE j \in Digests : j # i

C2_RankConsistency ==
    \A i \in Digests :
        (last.op = "none" \/ last.self = i) =>
            \A a, b \in 0..qd[i].max_range :
                a < b =>
                    LET interval == interval_query(qd[i], a, b)
                        rank_a   == inverse_quantile_query(qd[i], a).value
                        rank_b   == inverse_quantile_query(qd[i], b).value
                    IN  /\ interval.err = "none"
                        /\ interval.value = rank_b - rank_a
                        /\ rank_a <= rank_b

\* a merged and compressed digest in which an interval holds elements
C2_Witness ==
    /\ last.op = "merge" /\ last.err = "none"
    /\ DictHas(qd[last.self].qdigest, ROOT_BUCKET)
    /\ \E a, b \in 0..qd[last.self].max_range :
            a < b /\ interval_query(qd[last.self], a, b).value > 0

C5_CountIsAdds == rs_count(rs) = added

\* C5 as amended: count() of the sampler is the number of add calls made
\* less the elements still staged in the queue.
C5_CountIsCommitted == rs_count(rs) = added - Len(rs.queue)

\* elements are staged behind committed ones, some of them sampled away
C5_Witness ==
    /\ last.op = "rs_add"
    /\ Len(rs.queue) > 0
    /\ rs_count(rs) > rs.elements_per_buffer * rs.number_of_buffers

\* C6: after at least one add, quantile_query with a quantile of [0, 1] does
\* not fail with the empty-structure error.
C6_QuantileAfterAdd ==
    (last.op = "rs_quantile_query" /\ added >= 1) =>
        last.err # "ValueError: Cannot estimate quantile from an empty structure"

\* C7: add of a value outside the range of the digest raises the range error
\* and leaves the digest as it was.
C7_RejectedAdd ==
    [][ \A i \in Digests :
            /\ \A c \in BOOLEAN :
                    add(qd[i], qd[i].max_range + 1, c).err
                        = "ValueError: Value out of range"
            /\ (last'.op = "add" /\ last'.self = i /\ last'.err # "none") =>
                    qd' = qd /\ inserted' = inserted ]_vars

\* an add has just been rejected by a digest that holds elements
C7_Witness ==
    /\ last.op = "add" /\ last.err = "ValueError: Value out of range"
    /\ count(qd[last.self]) >= 2
    /\ qd[last.self].exact_boundary_value = count(qd[last.self])

\* C8: quantile_query on a digest without elements is reported as a query
\* error (the ValueError of the other rejected queries).
C8_EmptyQuantileQuery ==
    (last.op = "quantile_query" /\ inserted[1] = 0) => last.err \in ValueErrors

\* C9: inverse_quantile_query and interval_query on a digest without elements
\* are reported as an error.
C9_EmptyRankQuery ==
    (last.op \in {"inverse_quantile_query", "interval_query"} /\ inserted[1] = 0)
        => last.err # "none"

\* C9, the sampler: the same two queries on a sampler without elements.
C9_EmptySamplerRankQuery ==
    (last.op \in {"rs_inverse_quantile_query", "rs_interval_query"} /\ added = 0)
        => last.err # "none"

\* C10: merge of digests that differ in compression factor or in range is
\* rejected with an error and changes neither digest.
C10_RejectedMerge ==
    [][ (last'.op = "merge" /\ ~SameParameters) =>
            /\ last'.err \in { "ValueError: Compression factors have to be equal",
                               "ValueError: Ranges have to be equal" }
            /\ qd' = qd /\ inserted' = inserted ]_vars

\* a merge of two non-empty digests of different ranges has been rejected
C10_Witness ==
    /\ last.op = "merge" /\ last.err = "ValueError: Ranges have to be equal"
    /\ count(qd[1]) > 0 /\ count(qd[2]) > 0

\* the adds of the values lo..hi recorded for digest i
RECURSIVE InsertedIn(_, _, _)
InsertedIn(i, lo, hi) ==
    IF lo > hi THEN 0 ELSE values[i][lo] + InsertedIn(i, lo + 1, hi)

C13_LenIsMapSize ==
    \A i \in Digests : len(qd[i]) = Cardinality(DictAsMap(qd[i].qdigest))

\* a merge has left buckets on several levels, its compress having removed some
C13_Witness ==
    /\ last.op = "merge" /\ last.err = "none"
    /\ len(qd[last.self]) >= 2
    /\ len(qd[last.self]) < len(qd[Other(last.self)])
    /\ ~DictHas(qd[last.self].qdigest, ROOT_BUCKET)

\* C14: every 4-bit counter of the BitVectorCounter holds a value of 0..15
\* after any increment and decrement calls; an increment of a counter that
\* holds 15 leaves it at 15, a decrement of a counter that holds 0 leaves it
\* at 0.
C14_CounterRange ==
    [][ /\ \A index \in 0..(bvc.length - 1) :
                getitem(bvc, index) \in 0..15 /\ getitem(bvc', index) \in 0..15
        /\ (last'.op = "increment" /\ last'.err = "none"
                /\ getitem(bvc, last'.self) = 15) => getitem(bvc', last'.self) = 15
        /\ (last'.op = "decrement" /\ last'.err = "none"
                /\ getitem(bvc, last'.self) = 0) => getitem(bvc', last'.self) = 0 ]_vars

\* an increment has been made on a counter that holds 15
C14_Witness ==
    /\ last.op = "increment" /\ last.err = "none"
    /\ getitem(bvc, last.self) = 15
    /\ bvc.vector[last.self \div NUMBER_OF_SUBCOUNTERS] \in {15, 240}
    /\ \E index \in 0..(bvc.length - 1) : index # last.self /\ getitem(bvc, index) = 15

\* max(1, floor(total_inserted / compression_factor)) for digest i
Boundary(i) ==
    IF inserted[i] \div qd[i].compression_factor > 1
    THEN inserted[i] \div qd[i].compression_factor ELSE 1

\* count(bucket) + count(parent) + count(sibling) in digest d, missing buckets
\* counting as 0
FamilyCounts(d, bucket_id) ==
    DictGet(d.qdigest, bucket_id, 0)
        + DictGet(d.qdigest, bucket_parent_id(bucket_id), 0)
        + DictGet(d.qdigest, bucket_sibling_id(bucket_id), 0)

\* C15 (q-digest property): immediately after compress has run, every
\* retained non-root bucket with a non-zero count has
\* count(bucket) + count(parent) + count(sibling) > boundary.
C15_QDigestProperty ==
    last.op = "compress" =>
        \A j \in 1..Len(qd[1].qdigest) :
            (qd[1].qdigest[j][1] # ROOT_BUCKET /\ qd[1].qdigest[j][2] > 0) =>
                FamilyCounts(qd[1], qd[1].qdigest[j][1]) > Boundary(1)

\* bucket b1 comes before b2 in the order of increasing upper bound of the
\* sub-range, the smaller range first among equal upper bounds
UpperBoundBefore(d, b1, b2) ==
    LET r1 == bucket_range(d, b1[1])
        r2 == bucket_range(d, b2[1])
    IN  r1[2] < r2[2] \/ (r1[2] = r2[2] /\ r1[2] - r1[1] < r2[2] - r2[1])

RECURSIVE InsertByUpperBound(_, _, _)
InsertByUpperBound(d, ordered, b) ==
    IF ordered = <<>> THEN <<b>>
    ELSE IF UpperBoundBefore(d, b, Head(ordered))
    THEN <<b>> \o ordered
    ELSE <<Head(ordered)>> \o InsertByUpperBound(d, Tail(ordered), b)

RECURSIVE ByUpperBound(_, _)
ByUpperBound(d, items) ==
    IF items = <<>> THEN <<>>
    ELSE InsertByUpperBound(d, ByUpperBound(d, Tail(items)), Head(items))

\* C16: in every digest state, for a quantile q below 1, quantile_query(q)
\* returns the upper bound of the first bucket, in the order of increasing
\* upper bound (smaller range first), at which the cumulative count exceeds
\* q * total_inserted.
C16_QuantileByUpperBound ==
    \A quantile \in Quantiles :
        (0 <= quantile[1] /\ quantile[1] < quantile[2] /\ count(qd[1]) > 0) =>
            LET ordered   == ByUpperBound(qd[1], qd[1].qdigest)
                bucket_id == QuantileScan(ordered, 1, 0, count(qd[1]), quantile)
            IN  /\ quantile_query(qd[1], quantile).err = "none"
                /\ quantile_query(qd[1], quantile).value
                        = bucket_range(qd[1], bucket_id)[2]

\* C17: for every valid configuration and every sequence of adds and queries
\* the assertion of _collapse holds - a level holds two non-empty buffers
\* whenever a collapse is needed - and the call completes.
C17_CollapseSucceeds ==
    /\ ~rs.failed
    /\ last.op \in {"rs_add", "rs_quantile_query", "rs_inverse_quantile_query",
                    "rs_interval_query"} => last.err # "AssertionError"

\* the sum over the buffers from buffer_id on of 2^level times the occupied slots
RECURSIVE WeightFrom(_, _)
WeightFrom(s, buffer_id) ==
    IF buffer_id > s.number_of_buffers THEN 0
    ELSE 2^(s.levels[buffer_id]) * Len(s.buffer[buffer_id]) + WeightFrom(s, buffer_id + 1)

\* C18 (weight conservation): under add calls only, after each add that
\* completes, the sum over the buffers of 2^level times the occupied slots is
\* the number of elements committed so far, whatever commit and collapse
\* have drawn.
C18_WeightConserved ==
    ~rs.failed => WeightFrom(rs, 1) = rs_count(rs)

\* an add has committed a chunk of several elements after a collapse
C18_Witness ==
    /\ last.op = "rs_add" /\ last.err = "none"
    /\ rs.queue = <<>>
    /\ rs_count(rs) > rs.number_of_buffers * rs.elements_per_buffer
    /\ \A b \in 1..rs.number_of_buffers : rs.levels[b] >= 1 /\ ~is_empty(rs, b)

\* C19: after any adds and queries, the rank that inverse_quantile_query
\* returns does not exceed count().
C19_RankWithinCount ==
    (last.op = "rs_inverse_quantile_query" /\ last.err = "none") =>
        last.value <= rs_count(rs)

\* C20: compress is a no-op - bucket map, len() and count() unchanged -
\* whenever the digest holds no more buckets than its compression factor.
C20_CompressNoOp ==
    len(qd[1]) <= qd[1].compression_factor =>
        /\ compress(qd[1]).qdigest = qd[1].qdigest
        /\ len(compress(qd[1])) = len(qd[1])
        /\ count(compress(qd[1])) = count(qd[1])

\* C12: on a digest on which compress has not run, interval_query(a, b) for
\* in-range a < b is the number of inserted values v with a <= v <= b, both
\* boundaries included.
C12_ClosedInterval ==
    ~compressed[1] =>
        \A a, b \in qd[1].min_range..qd[1].max_range :
            a < b => interval_query(qd[1], a, b).value = InsertedIn(1, a, b)

\* C21 (bounded size): after compress has run, the digest retains at most
\* 3 x compression_factor buckets, whatever the adds that preceded it.
C21_BoundedSize ==
    last.op = "compress" => len(qd[1]) <= 3 * qd[1].compression_factor

\* C22 (idempotence): running compress a second time right after compress
\* leaves the bucket map as the first run left it.
C22_CompressIdempotent ==
    last.op = "compress" =>
        DictAsMap(compress(qd[1]).qdigest) = DictAsMap(qd[1].qdigest)

\* the quantiles of Quantiles that lie in [0, 1]
UnitQuantiles == { quantile \in Quantiles : 0 <= quantile[1] /\ quantile[1] <= quantile[2] }

\* C23 (monotone quantiles): on a non-empty digest, compressed or not,
\* q1 <= q2 in [0, 1] gives quantile_query(q1) <= quantile_query(q2).
C23_QuantileMonotone ==
    count(qd[1]) > 0 =>
        \A q1, q2 \in UnitQuantiles :
            q1[1] * q2[2] <= q2[1] * q1[2] =>
                quantile_query(qd[1], q1).value <= quantile_query(qd[1], q2).value

\* the states in which _find_empty_buffer, entered in state s, calls _collapse
RECURSIVE CollapseInputs(_)
CollapseInputs(s) ==
    IF \E b \in 1..s.number_of_buffers : is_empty(s, b) THEN {}
    ELSE {s} \cup UNION { IF c.failed THEN {} ELSE CollapseInputs(c) : c \in collapse(s) }

\* c is s with two distinct non-empty buffers of one level merged: the first
\* non-empty and one level up, the second empty, the others as they were
Collapsed(s, c) ==
    \E b1, b2 \in 1..s.number_of_buffers :
        /\ b1 # b2
        /\ ~is_empty(s, b1) /\ ~is_empty(s, b2)
        /\ s.levels[b1] = s.levels[b2]
        /\ ~is_empty(c, b1) /\ c.levels[b1] = s.levels[b1] + 1
        /\ is_empty(c, b2)
        /\ \A b \in 1..s.number_of_buffers \ {b1, b2} :
                c.buffer[b] = s.buffer[b] /\ c.levels[b] = s.levels[b]

\* the calls of _commit open in the sampler: by add of an element, or forced
\* by a query
Commits == { <<[rs EXCEPT !.queue = Append(@, element)], FALSE>> : element \in Values }
                \cup { <<rs, TRUE>> }

\* s with its queue taken and counted, as _commit hands it to _find_empty_buffer
Taken(s) == [s EXCEPT !.queue = <<>>, !.number_of_elements = @ + Len(s.queue)]

\* t is f.s with the buffer found populated and tagged with level
Tagged(f, t, level) ==
    /\ ~is_empty(t, f.buffer_id)
    /\ t.levels[f.buffer_id] = level
    /\ \A b \in 1..t.number_of_buffers \ {f.buffer_id} :
            t.buffer[b] = f.s.buffer[b] /\ t.levels[b] = f.s.levels[b]

\* C24 (level bookkeeping): every collapse merges two distinct non-empty
\* buffers of one level l, leaving one non-empty at level l + 1 and the other
\* empty, and every commit tags the buffer it populates with its active level.
C24_LevelBookkeeping ==
    ~rs.failed =>
        \A call \in Commits :
            /\ \A s \in CollapseInputs(Taken(call[1])) :
                    \A c \in collapse(s) : Collapsed(s, c)
            /\ \A t \in commit(call[1], call[2]) :
                    (~t.failed /\ t.queue = <<>> /\ call[1].queue # <<>>) =>
                        \E f \in find_empty_buffer(Taken(call[1])) :
                            ~f.s.failed /\ Tagged(f, t, active_level(call[1]))

\* the buckets above bucket_id on its path to the root
RECURSIVE Ancestors(_)
Ancestors(bucket_id) ==
    IF bucket_id <= ROOT_BUCKET THEN {}
    ELSE {bucket_id \div 2} \cup Ancestors(bucket_id \div 2)

\* the bucket map the claim gives for add(element) on digest d
AfterAdd(d, element) ==
    LET leaf     == 2^d.range_in_bits + element
        retained == { a \in Ancestors(leaf) : DictHas(d.qdigest, a) }
        created  == { a \in Ancestors(leaf) : \A r \in retained : a > r }
    IN  IF DictHas(d.qdigest, leaf)
        THEN (DictAsMap(d.qdigest) \ { <<leaf, DictGet(d.qdigest, leaf, 0)>> })
                \cup { <<leaf, DictGet(d.qdigest, leaf, 0) + 1>> }
        ELSE DictAsMap(d.qdigest) \cup { <<leaf, 1>> } \cup { <<a, 0>> : a \in created }

C26_ExactIds ==
    last.op \in {"bucket_canonical_id", "bucket_parent_id", "bucket_sibling_id"} =>
        /\ \A element \in IdValues :
                ~AtLeast64(element, Shifted64(last.self)) =>
                    bucket_canonical_id_64(last.self, element)
                        = Plus64(Shifted64(last.self), element)
        /\ AtLeast64(last.value, <<0, 2>>) =>
                /\ bucket_parent_id_64(last.value) = Half64(last.value)
                /\ bucket_sibling_id_64(last.value) = Xor64(last.value)

\* C27 (bucket ranges): the bucket at position p of level L of a digest of R
\* bits has the range [p * 2^(R-L+1), (p+1) * 2^(R-L+1) - 1].
C27_BucketRange ==
    last.op = "bucket_range" =>
        LET level    == bucket_level(last.value[1])
            position == last.value[1] - 2^(level - 1)
            width    == 2^(last.self - level + 1)
        IN  /\ last.value[2] = position * width
            /\ last.value[3] = (position + 1) * width - 1

\* the least level L >= 0 with
\* number_of_elements <= elements_per_buffer * 2^(height - 1 + L)
LeastLevel(s) ==
    CHOOSE level \in 0..s.number_of_elements :
        /\ s.number_of_elements <= s.elements_per_buffer * 2^(s.height - 1 + level)
        /\ \A lower \in 0..(level - 1) :
                s.number_of_elements > s.elements_per_buffer * 2^(s.height - 1 + lower)

\* C28 (active level): the level a commit computes for n counted elements is
\* max(0, ceil(log2(n / buffer_capacity) - height + 1)) with exact division,
\* the least L >= 0 with n <= buffer_capacity * 2^(height - 1 + L); 0 for n = 0.
C28_ActiveLevel ==
    ~rs.failed => active_level(rs) = LeastLevel(rs)

\* C29 (counter frame): an increment or a decrement of the counter at one
\* index leaves the value read at every other index as it was, the other
\* 4-bit counter of the same byte included.
C29_CounterFrame ==
    [][ (last'.op \in {"increment", "decrement"} /\ last'.err = "none")
            => \A index \in 0..(bvc.length - 1) :
                    index # last'.self => getitem(bvc', index) = getitem(bvc, index) ]_vars

\* C30 (decrement): a decrement lowers a counter that holds 1..15 by exactly
\* 1, and for a counter that holds c in 0..14 an increment followed by a
\* decrement of the same index gives c again.
C30_DecrementByOne ==
    [][ /\ (last'.op = "decrement" /\ last'.err = "none"
                /\ getitem(bvc, last'.self) # 0)
            => getitem(bvc', last'.self) = getitem(bvc, last'.self) - 1
        /\ \A index \in 0..(bvc.length - 1) :
                getitem(bvc, index) <= 14
                    => getitem(decrement(increment(bvc, index).b, index).b, index)
                            = getitem(bvc, index) ]_vars
====
